---- MODULE Spec2Model ----
(***************************************************************************)
(* Model of the radioreceiver NaCl decoder: the DSP operators of           *)
(* nacl-src/dsp.cc, the decoder chains built from them and the message     *)
(* host of nacl-src/decode-module.cc.                                      *)
(*                                                                         *)
(* Numbers.  C++ float values are modelled in fixed point: the integer v   *)
(* stands for v / One.  A byte b converts to (b - 128) * 8, which is       *)
(* exactly b / 128 - 1.  NaN is a distinguished value: every arithmetic    *)
(* operator propagates it and every comparison with it is false, as in     *)
(* IEEE 754.  The read cursor of the downsamplers decides which samples    *)
(* are read, so it is modelled bit-exactly as an IEEE single (F32...).     *)
(***************************************************************************)
EXTENDS Integers, Sequences, FiniteSets, TLC

(***************************************************************************)
(* Bounds of the model.                                                    *)
(***************************************************************************)
\* longest kernel, most samples loaded in all, most loadSamples calls
MaxFirKernel == 3
MaxFirStream == 4
MaxFirLoads == 3
\* kernels longer than MaxTaps are cut to MaxTaps taps (then forced odd)
MaxTaps == 3
\* number of messages the host handles in one behaviour
MaxMsgs == 3
\* number of blocks one chain decodes in one behaviour
MaxBlocks == 2
\* longest block, in I/Q pairs, of the blocks of every even length
MaxPairs == 130
\* number of blocks the separator is driven with in one behaviour
MaxPilotBlocks == 3
\* the short blocks have every length up to this one, in bytes
MaxShortLen == 7
\* longest block, in samples, of the blocks the read cursor is run over
MaxCursorLen == 549797
\* length in I/Q pairs, and number, of the blocks of one long stereo stream
StereoBlockPairs == 88
MaxStereoBlocks == 640

(***************************************************************************)
(* Fixed-point arithmetic standing for float arithmetic.                   *)
(***************************************************************************)
One == 1024
NaN == 2000000000

Abs(a) == IF a < 0 THEN -a ELSE a
Sgn(a) == IF a < 0 THEN -1 ELSE 1
Min(a, b) == IF a < b THEN a ELSE b
Max(a, b) == IF a > b THEN a ELSE b

\* n / d rounded to the nearest integer, halves away from zero (d > 0)
RoundDiv(n, d) == Sgn(n) * ((Abs(n) + d \div 2) \div d)
\* n / d truncated toward zero, the C++ integer division and (int) cast
TruncDiv(n, d) == Sgn(n) * Sgn(d) * (Abs(n) \div Abs(d))

IsNaN(a) == a = NaN
FAdd(a, b) == IF IsNaN(a) \/ IsNaN(b) THEN NaN ELSE a + b
FSub(a, b) == IF IsNaN(a) \/ IsNaN(b) THEN NaN ELSE a - b
FNeg(a) == IF IsNaN(a) THEN NaN ELSE -a
\* a * b / One, split so that the intermediate product stays in range
FMul(a, b) ==
  IF IsNaN(a) \/ IsNaN(b) THEN NaN
  ELSE Sgn(a) * Sgn(b) *
       ((Abs(a) \div One) * Abs(b) + RoundDiv((Abs(a) % One) * Abs(b), One))
\* a / b for b # 0; a large remainder is divided by b / One instead of being
\* multiplied by One, to stay in range
FDiv(a, b) ==
  IF IsNaN(a) \/ IsNaN(b) THEN NaN
  ELSE LET q   == Abs(a) \div Abs(b)
           rem == Abs(a) % Abs(b)
       IN  Sgn(a) * Sgn(b) *
           (q * One + (IF rem < 2000000 THEN RoundDiv(rem * One, Abs(b))
                       ELSE RoundDiv(rem, RoundDiv(Abs(b), One))))
FLt(a, b) == ~IsNaN(a) /\ ~IsNaN(b) /\ a < b
FGt(a, b) == ~IsNaN(a) /\ ~IsNaN(b) /\ a > b
FEq(a, b) == ~IsNaN(a) /\ ~IsNaN(b) /\ a = b

Zeros(n) == [i \in 1..n |-> 0]
\* the last n elements of s (all of s when it is shorter)
LastN(s, n) == IF Len(s) <= n THEN s ELSE SubSeq(s, Len(s) - n + 1, Len(s))
Reverse(s) == [i \in 1..Len(s) |-> s[Len(s) + 1 - i]]

(***************************************************************************)
(* FIRFilter (dsp.cc).  A filter is a record                               *)
(*   coefficients_ : the kernel, reversed                                  *)
(*   curSamples_   : the working window (history followed by the block)    *)
(*   step_, offset_                                                        *)
(***************************************************************************)
FIRFilter(coefficients, step) ==
  [coefficients_ |-> Reverse(coefficients),
   curSamples_   |-> Zeros((Len(coefficients) - 1) * step),
   step_         |-> step,
   offset_       |-> (Len(coefficients) - 1) * step]

\* memmove(dst, src, n) inside one buffer: n elements starting at index src
\* (0-based) are copied to index dst, overlapping regions handled.
MemMoveWithin(buf, dst, src, n) ==
  [i \in 1..Len(buf) |->
     IF i - 1 >= dst /\ i - 1 < dst + n THEN buf[src + (i - 1 - dst) + 1]
     ELSE buf[i]]

\* vector::resize: truncate, or extend with value-initialised floats
Resize(buf, n) == [i \in 1..n |-> IF i <= Len(buf) THEN buf[i] ELSE 0]

\* the block-tail-only history a filter would keep if it forgot that a block
\* can be shorter than the history
loadSamplesBlockTail(f, samples) ==
  LET pad == Zeros(f.offset_) \o samples
  IN  [f EXCEPT !.curSamples_ = LastN(pad, f.offset_) \o samples]

loadSamples(f, samples) ==
  LET fullLen  == Len(samples) + f.offset_
      endOfCur == Len(f.curSamples_) - f.offset_
      moved    == MemMoveWithin(f.curSamples_, 0, endOfCur, f.offset_)
      sized    == IF fullLen # Len(moved) THEN Resize(moved, fullLen) ELSE moved
  IN  [f EXCEPT !.curSamples_ =
         [i \in 1..fullLen |->
            IF i > f.offset_ THEN samples[i - f.offset_] ELSE sized[i]]]

RECURSIVE FirSum(_, _, _, _)
FirSum(f, ic, is, out) ==
  IF ic >= Len(f.coefficients_) THEN out
  ELSE FirSum(f, ic + 1, is + f.step_,
              FAdd(out, FMul(f.coefficients_[ic + 1], f.curSamples_[is + 1])))

\* FIRFilter::get(index), index 0-based as in the code
get(f, index) == FirSum(f, 0, index, 0)

(***************************************************************************)
(* IEEE single arithmetic of the read cursor.  A positive float is held as *)
(* an integer number of F32Unit-ths (2^-22); every value the cursor takes  *)
(* is at least 2 or an integer, so it is a whole number of units.          *)
(***************************************************************************)
F32Unit == 4194304

RECURSIVE Pow2(_)
Pow2(n) == IF n <= 0 THEN 1 ELSE 2 * Pow2(n - 1)

RECURSIVE BitLen(_)
\* number of binary digits of n >= 0
BitLen(n) == IF n = 0 THEN 0 ELSE 1 + BitLen(n \div 2)

RECURSIVE LongDiv(_, _, _, _)
\* <<floor(N * 2^bits / d), remainder>> given q = floor(N / d), rem = N % d
LongDiv(q, rem, d, bits) ==
  IF bits = 0 THEN <<q, rem>>
  ELSE IF 2 * rem >= d THEN LongDiv(2 * q + 1, 2 * rem - d, d, bits - 1)
       ELSE LongDiv(2 * q, 2 * rem, d, bits - 1)

\* round-to-nearest, ties to even, of q + rem/d
RoundEven(q, rem, d) ==
  IF 2 * rem > d \/ (2 * rem = d /\ q % 2 = 1) THEN q + 1 ELSE q

\* the float nearest to n / d (n >= d > 0), in units
F32FromRatio(n, d) ==
  LET e    == BitLen(n \div d) - 1
      bits == IF e >= 1 THEN 23 - e ELSE 22
      qr   == LongDiv(n \div d, n % d, d, bits)
  IN  RoundEven(qr[1], qr[2], d) * Pow2(22 - bits)

\* float addition a + b of two cursor values, in units
F32Add(a, b) ==
  LET s   == a + b
      e   == BitLen(s \div F32Unit) - 1
      ulp == IF e >= 1 THEN Pow2(e - 1) ELSE 1
  IN  RoundEven(s \div ulp, s % ulp, ulp) * ulp

\* the quotient truncated without the rounding to a float
ExactQuotInt(n, r) == (n * F32Unit) \div r

\* (int) (n / r): the float quotient of the integer n (0 <= n < r) by the
\* float r (in units), rounded to a float and then truncated
F32QuotInt(n, r) ==
  LET ip   == LongDiv(0, n, r, 22)[1]
      bits == 24 - BitLen(ip)
      qr   == LongDiv(0, n, r, 22 + bits)
  IN  RoundEven(qr[1], qr[2], r) \div Pow2(bits)

\* (int) readFrom
F32ToInt(a) == a \div F32Unit

\* The same float addition for a cursor of any size below 2^23: the cursor
\* is held as <<integer part, fraction in units>>, the increment b in units.
\* The exact sum is rounded to the 24 significant bits of a float, to
\* nearest, ties to even.
F32AddWide(a, b) ==
  LET Rounded(hi, lo, ulp) ==
        LET Carried(lo2) == IF lo2 >= F32Unit THEN <<hi + 1, lo2 - F32Unit>> ELSE <<hi, lo2>>
        IN  Carried(RoundEven(lo \div ulp, lo % ulp, ulp) * ulp)
      Sized(hi, lo) == Rounded(hi, lo, Pow2(BitLen(hi) - 2))
      Summed(lo) == Sized(a[1] + b \div F32Unit + lo \div F32Unit, lo % F32Unit)
  IN  Summed(a[2] + (b % F32Unit))

(***************************************************************************)
(* Elementary functions in fixed point (Taylor polynomials), standing for  *)
(* the libm calls of the code.                                             *)
(***************************************************************************)
\* exp(-x) for 0 <= x <= One
FExpNeg(x) ==
  LET T[k \in Nat, term \in Int, acc \in Int] ==
        IF k > 8 THEN acc
        ELSE T[k + 1, RoundDiv(FMul(term, -x), k + 1), acc + term]
  IN  T[0, One, 0]

\* sin and cos of a small angle (|x| <= One)
FSin(x) ==
  LET x2 == FMul(x, x)
      x3 == FMul(x2, x)
      x5 == FMul(x3, x2)
  IN  x - RoundDiv(x3, 6) + RoundDiv(x5, 120)

FCos(x) ==
  LET x2 == FMul(x, x)
      x4 == FMul(x2, x2)
      x6 == FMul(x4, x2)
  IN  One - RoundDiv(x2, 2) + RoundDiv(x4, 24) - RoundDiv(x6, 720)

RECURSIVE ISqrtFrom(_, _)
ISqrtFrom(n, r) == IF r * r <= n THEN r ELSE ISqrtFrom(n, (r + n \div r) \div 2)
\* sqrt(p): the integer square root of p * One (Newton's iteration)
FSqrt(p) == IF p <= 0 THEN 0 ELSE ISqrtFrom(p * One, Min(p * One, 46340))

\* 2 * pi * One / 1000 and pi / 2, from kPi (dsp.cc)
K2PiMilli == 6283
kPi2 == 1608

(***************************************************************************)
(* getLowPassFIRCoeffs.  The length is forced odd and the taps are         *)
(* normalised to sum to 1 as in the code.  The Blackman-windowed sinc      *)
(* needs sin and cos of arbitrary angles; the model keeps its shape (a     *)
(* symmetric window peaking at the centre) with a triangular window, and   *)
(* cuts the kernel to MaxTaps.  No tap value is compared with the code's.  *)
(***************************************************************************)
getLowPassFIRCoeffs(sampleRate, halfAmplFreq, length) ==
  LET cut    == Min(length, MaxTaps)
      len    == cut + ((cut + 1) % 2)
      center == len \div 2
      sum    == (center + 1) * (center + 1)
  IN  [i \in 1..len |-> RoundDiv((center + 1 - Abs(i - 1 - center)) * One, sum)]

\* samplesFromUint8: out[i] = buffer[i] / 128.0 - 1
samplesFromUint8(buffer) == [i \in 1..Len(buffer) |-> (buffer[i] - 128) * (One \div 128)]

(***************************************************************************)
(* Downsampler and IQDownsampler.                                          *)
(***************************************************************************)
\* the indices (int) readFrom of n successive reads, readFrom += rateMul_
ReadPositions(n, rateMul) ==
  LET P[k \in Nat, readFrom \in Nat, acc \in Seq(Nat)] ==
        IF k >= n THEN acc
        ELSE P[k + 1, F32Add(readFrom, rateMul), Append(acc, F32ToInt(readFrom))]
  IN  P[0, 0, <<>>]

Downsampler(inRate, outRate, coefs) ==
  [filter_ |-> FIRFilter(coefs, 1), rateMul_ |-> F32FromRatio(inRate, outRate)]

\* Downsampler::downsample: the new object, the output block, and the block
\* indices that were read
Downsampler_downsample(d, samples) ==
  LET Read(filter, pos) ==
        [self |-> [d EXCEPT !.filter_ = filter],
         out  |-> [i \in 1..Len(pos) |-> get(filter, pos[i])],
         pos  |-> pos]
      Sized(outLen) == Read(loadSamples(d.filter_, samples), ReadPositions(outLen, d.rateMul_))
  IN  Sized(F32QuotInt(Len(samples), d.rateMul_))

\* a downsample that returns at once when there is nothing to emit
IQDownsampler_downsampleSkipShort(d, samples) ==
  LET Read(filter, pos) ==
        [self |-> [d EXCEPT !.filter_ = filter],
         I    |-> [i \in 1..Len(pos) |-> get(filter, 2 * pos[i])],
         Q    |-> [i \in 1..Len(pos) |-> get(filter, 2 * pos[i] + 1)],
         pos  |-> pos]
      Sized(numSamples) ==
        IF numSamples = 0 THEN Read(d.filter_, <<>>)
        ELSE Read(loadSamples(d.filter_, samples), ReadPositions(numSamples, d.rateMul_))
  IN  Sized(F32QuotInt(Len(samples), 2 * d.rateMul_))

IQDownsampler(inRate, outRate, coefs) ==
  [filter_ |-> FIRFilter(coefs, 2), rateMul_ |-> F32FromRatio(inRate, outRate)]

\* IQDownsampler::downsample: pos holds the I/Q pair indices (int) readFrom
IQDownsampler_downsample(d, samples) ==
  LET Read(filter, pos) ==
        [self |-> [d EXCEPT !.filter_ = filter],
         I    |-> [i \in 1..Len(pos) |-> get(filter, 2 * pos[i])],
         Q    |-> [i \in 1..Len(pos) |-> get(filter, 2 * pos[i] + 1)],
         pos  |-> pos]
      Sized(numSamples) ==
        Read(loadSamples(d.filter_, samples), ReadPositions(numSamples, d.rateMul_))
  IN  Sized(F32QuotInt(Len(samples), 2 * d.rateMul_))

\* sigSqrSum > 0.002 * outLen
AboveCarrierThreshold(sigSqrSum, outLen) ==
  ~IsNaN(sigSqrSum) /\ sigSqrSum * 1000 > 2 * One * outLen

(***************************************************************************)
(* FMDemodulator.                                                          *)
(***************************************************************************)
myatan2(y0, x) ==
  LET neg  == FLt(y0, 0)
      y    == IF neg THEN FNeg(y0) ELSE y0
      sgn0 == IF neg THEN -1 ELSE 1
      br   == IF FEq(x, y) THEN "eq" ELSE IF FGt(x, y) THEN "gt" ELSE "else"
      \* x / y with y = 0 is -inf (x < 0 here) and the quotient below is
      \* -inf / +inf = NaN
      div  == IF br = "eq" THEN One
              ELSE IF br = "gt" THEN FDiv(y, x)
              ELSE IF IsNaN(x) \/ IsNaN(y) \/ y = 0 THEN NaN
              ELSE FDiv(x, y)
      ang0 == IF br = "else" THEN -kPi2 ELSE 0
      sgn  == IF br = "else" THEN -sgn0 ELSE sgn0
      den  == FAdd(1008, FMul(div, FAdd(96, FMul(div, 200))))
      ang  == IF IsNaN(div) THEN NaN ELSE FAdd(ang0, FDiv(div, den))
  IN  IF IsNaN(ang) THEN NaN ELSE sgn * ang

\* a constructor that leaves lI_ to the content of its storage as well
FMDemodulatorNoHistoryInit(inRate, outRate, maxF, filterFreq, kernelLen, garbage) ==
  [amplConv_   |-> RoundDiv(outRate * One, RoundDiv(maxF * K2PiMilli, 1000)),
   downsampler_ |-> IQDownsampler(inRate, outRate,
                      getLowPassFIRCoeffs(inRate, filterFreq, kernelLen)),
   lI_ |-> IF garbage THEN One ELSE 0, lQ_ |-> 0, hasCarrier_ |-> garbage]

\* garbage is the content of the storage that becomes hasCarrier_, which no
\* constructor initialises
FMDemodulator(inRate, outRate, maxF, filterFreq, kernelLen, garbage) ==
  [amplConv_   |-> RoundDiv(outRate * One, RoundDiv(maxF * K2PiMilli, 1000)),
   downsampler_ |-> IQDownsampler(inRate, outRate,
                      getLowPassFIRCoeffs(inRate, filterFreq, kernelLen)),
   lI_ |-> 0, lQ_ |-> 0, hasCarrier_ |-> garbage]

FMDemodulator_demodulateTuned(fm, samples) ==
  LET Discriminate(iq) ==
        LET outLen == Len(iq.I)
            \* the loop: i, lI_, lQ_, sigSqrSum and the output so far
            D[i \in Nat, lI \in Int, lQ \in Int, sigSqrSum \in Int, out \in Seq(Int)] ==
              IF i >= outLen THEN <<lI, lQ, sigSqrSum, out>>
              ELSE LET Step(I, Q) ==
                         LET real == FAdd(FMul(lI, I), FMul(lQ, Q))
                             imag == FSub(FMul(lI, Q), FMul(I, lQ))
                         IN  D[i + 1, I, Q, FAdd(sigSqrSum, FMul(I, I)),
                               Append(out, FMul(myatan2(imag, real), fm.amplConv_))]
                   IN  Step(iq.I[i + 1], iq.Q[i + 1])
            Result(r) ==
              [self |-> [fm EXCEPT !.downsampler_ = iq.self, !.lI_ = r[1], !.lQ_ = r[2],
                                   !.hasCarrier_ = AboveCarrierThreshold(r[3], outLen)],
               out  |-> r[4],
               pos  |-> iq.pos]
        IN  Result(D[0, fm.lI_, fm.lQ_, 0, <<>>])
  IN  Discriminate(IQDownsampler_downsample(fm.downsampler_, samples))

(***************************************************************************)
(* AMDemodulator.                                                          *)
(***************************************************************************)
AMDemodulator(inRate, outRate, filterFreq, kernelLen, garbage) ==
  [downsampler_ |-> IQDownsampler(inRate, outRate,
                      getLowPassFIRCoeffs(inRate, filterFreq, kernelLen)),
   hasCarrier_ |-> garbage]

\* accumulate(first, last, 0): the accumulator is an int, every partial sum
\* is truncated to an integer
IntAccumulate(xs) ==
  LET A[k \in Nat, acc \in Int] ==
        IF k >= Len(xs) THEN acc
        ELSE A[k + 1, TruncDiv(acc * One + xs[k + 1], One)]
  IN  A[0, 0]

\* float iAvg = accumulate(first, last, 0) / outLen, for a non-empty block:
\* an integer division of the int sum, converted to float
AccumulatedMean(xs) == TruncDiv(IntAccumulate(xs), Len(xs)) * One

FSum(xs) ==
  LET A[k \in Nat, acc \in Int] ==
        IF k >= Len(xs) THEN acc ELSE A[k + 1, FAdd(acc, xs[k + 1])]
  IN  A[0, 0]

\* divZero: the two integer divisions by outLen were divisions by zero
AMDemodulator_demodulateTuned(am, samples) ==
  LET Envelope(iq) ==
        LET outLen == Len(iq.I)
            Normalise(power, ampl, halfPoint) ==
              [self |-> [am EXCEPT !.downsampler_ = iq.self,
                                   !.hasCarrier_ = AboveCarrierThreshold(FSum(power), outLen)],
               out  |-> [i \in 1..outLen |->
                           IF halfPoint = 0 THEN NaN
                           ELSE FDiv(ampl[i] * One - halfPoint, halfPoint)],
               pos  |-> iq.pos,
               divZero |-> outLen = 0]
            \* halfPoint = sigSum / outLen, kept with One times the resolution
            \* so that it is zero only when sigSum is
            Amplitudes(power, ampl) ==
              Normalise(power, ampl,
                        IF outLen = 0 THEN NaN ELSE RoundDiv(FSum(ampl) * One, outLen))
            Powers(power) == Amplitudes(power, [i \in 1..outLen |-> FSqrt(power[i])])
            Centred(iAvg, qAvg) ==
              Powers([i \in 1..outLen |->
                        FMul(iq.I[i] - iAvg, iq.I[i] - iAvg)
                          + FMul(iq.Q[i] - qAvg, iq.Q[i] - qAvg)])
        IN  Centred(IF outLen = 0 THEN 0 ELSE AccumulatedMean(iq.I),
                    IF outLen = 0 THEN 0 ELSE AccumulatedMean(iq.Q))
  IN  Envelope(IQDownsampler_downsample(am.downsampler_, samples))

(***************************************************************************)
(* StereoSeparator.  The three ExpAverage objects hold their average with  *)
(* AvgRes times the resolution of a sample, so that one sample in          *)
(* weight_ + 1 still moves the average.                                    *)
(***************************************************************************)
AvgRes == 65536

\* ExpAverage::add, avg_ = (weight_ * avg_ + value) / (weight_ + 1), computed
\* as avg_ + (value - avg_) / (weight_ + 1): the same number, without the
\* large product
ExpAverage_add(weight, avg, value) ==
  IF IsNaN(avg) \/ IsNaN(value) THEN NaN
  ELSE avg + RoundDiv(value * AvgRes - avg, weight + 1)

\* the frequency of table entry i in Hz: pilotFreq + i / 100 - 40, an int
\* expression, with the integer division of the code
TableFreq(pilotFreq, i) == pilotFreq + i \div 100 - 40
\* the angle of table entry i: (pilotFreq + i / 100 - 40) * k2Pi / sampleRate
TableAngle(sampleRate, pilotFreq, i) ==
  RoundDiv(TableFreq(pilotFreq, i) * RoundDiv(K2PiMilli * One, 1000), sampleRate)
sinTable_(sep, i) == FSin(TableAngle(sep.sampleRate, sep.pilotFreq, i))
cosTable_(sep, i) == FCos(TableAngle(sep.sampleRate, sep.pilotFreq, i))

\* ExpAverage(int weight) receives sampleRate * 0.03 and sampleRate * 0.15
StereoSeparator(sampleRate, pilotFreq) ==
  [sin_ |-> 0, cos_ |-> One,
   iavgWeight |-> (sampleRate * 3) \div 100, iavg_ |-> 0,
   qavgWeight |-> (sampleRate * 3) \div 100, qavg_ |-> 0,
   cavgWeight |-> (sampleRate * 15) \div 100, cavg_ |-> 0,
   sampleRate |-> sampleRate, pilotFreq |-> pilotFreq]

kCorrThres == 4 * One

\* the quotient of the two averages without the clamp to [-4, 4]
CorrelationUnclamped(hdev, vdev) ==
  IF FGt(vdev, 0)
    THEN IF IsNaN(hdev) THEN NaN ELSE FDiv(hdev, vdev)
    ELSE IF FEq(hdev, 0) THEN 0 ELSE IF FGt(hdev, 0) THEN 4 * One ELSE -4 * One

\* corr as computed from the two averages
Correlation(hdev, vdev) ==
  IF FGt(vdev, 0)
    THEN \* fmaxf(-4, fminf(4, hdev / vdev)); fminf(4, NaN) is 4
         IF IsNaN(hdev) THEN 4 * One
         ELSE IF Abs(hdev) >= 4 * vdev THEN Sgn(hdev) * 4 * One
         ELSE FDiv(hdev, vdev)
    ELSE IF FEq(hdev, 0) THEN 0 ELSE IF FGt(hdev, 0) THEN 4 * One ELSE -4 * One

\* idx = roundf((corr + 4) * 1000)
TableIndex(corr) == RoundDiv((corr + 4 * One) * 1000, One)

StereoSeparator_separate(sep, samples) ==
  LET \* the loop: i, sin_, cos_, iavg_, qavg_, cavg_ and the output so far
      S[i \in Nat, sin \in Int, cos \in Int, iavg \in Int, qavg \in Int,
        cavg \in Int, out \in Seq(Int)] ==
        IF i >= Len(samples) THEN <<sin, cos, iavg, qavg, cavg, out>>
        ELSE LET Rotate(x, hdev, vdev, corr, sinT, cosT) ==
                   S[i + 1,
                     FMul(sin, cosT) + FMul(cos, sinT),
                     FMul(cos, cosT) - FMul(sin, sinT),
                     vdev, hdev,
                     ExpAverage_add(sep.cavgWeight, cavg, FMul(corr, corr)),
                     Append(out, FMul(x, 2 * FMul(sin, cos)))]
                 Lookup(x, hdev, vdev, corr, idx) ==
                   Rotate(x, hdev, vdev, corr, sinTable_(sep, idx), cosTable_(sep, idx))
                 Correlate(x, hdev, vdev) ==
                   (LET Indexed(corr) == Lookup(x, hdev, vdev, corr, TableIndex(corr))
                    IN  Indexed(Correlation(hdev, vdev)))
                 Average(x) ==
                   Correlate(x, ExpAverage_add(sep.qavgWeight, qavg, FMul(x, cos)),
                                ExpAverage_add(sep.iavgWeight, iavg, FMul(x, sin)))
             IN  Average(samples[i + 1])
      Result(r) ==
        [self |-> [sep EXCEPT !.sin_ = r[1], !.cos_ = r[2], !.iavg_ = r[3],
                              !.qavg_ = r[4], !.cavg_ = r[5]],
         hasPilot |-> FLt(r[5], kCorrThres * AvgRes),
         diff |-> r[6]]
  IN  Result(S[0, sep.sin_, sep.cos_, sep.iavg_, sep.qavg_, sep.cavg_, <<>>])

(***************************************************************************)
(* Deemphasizer.                                                           *)
(***************************************************************************)
Deemphasizer(sampleRate, timeConstant_uS) ==
  [mult_ |-> FExpNeg(RoundDiv(1000000 * One, timeConstant_uS * sampleRate)),
   val_  |-> 0]

\* an inPlace that starts every block from zero
Deemphasizer_inPlaceFromZero(de, samples) ==
  LET E[i \in Nat, val \in Int, out \in Seq(Int)] ==
        IF i >= Len(samples) THEN <<val, out>>
        ELSE LET v == FAdd(FMul(One - de.mult_, samples[i + 1]), FMul(de.mult_, val))
             IN  E[i + 1, v, Append(out, v)]
      Result(r) == [self |-> [de EXCEPT !.val_ = r[1]], samples |-> r[2]]
  IN  Result(E[0, 0, <<>>])

Deemphasizer_inPlace(de, samples) ==
  LET E[i \in Nat, val \in Int, out \in Seq(Int)] ==
        IF i >= Len(samples) THEN <<val, out>>
        ELSE LET v == FAdd(FMul(One - de.mult_, samples[i + 1]), FMul(de.mult_, val))
             IN  E[i + 1, v, Append(out, v)]
      Result(r) == [self |-> [de EXCEPT !.val_ = r[1]], samples |-> r[2]]
  IN  Result(E[0, de.val_, <<>>])

(***************************************************************************)
(* The decoder chains.  decode returns the new chain, the StereoAudio, for *)
(* every output sample the index of the I/Q pair of the block at which its *)
(* filter windows start (srcPos), and whether an integer division by zero  *)
(* was executed (divZero).                                                 *)
(***************************************************************************)
WBFM_kInterRate == 336000
WBFM_kMaxF == 75000
WBFM_kPilotFreq == 19000
WBFM_kDeemphTc == 50
WBFM_kFilterFreq == 10000
WBFM_kFilterLen == 41
NBFM_kInterRate == 48000
NBFM_kFilterFreq == 10000
NBFM_kFilterLen == 41
AM_kInterRate == 336000
AM_kFilterFreq == 10000
AM_kFilterLen == 41

\* the source position of every output sample: the demodulator's read index
\* of the intermediate sample the audio downsampler read
SrcPos(demodPos, audioPos) == [i \in 1..Len(audioPos) |-> demodPos[audioPos[i] + 1]]

WBFMDecoder(inRate, outRate, garbage) ==
  LET filterCoefs == getLowPassFIRCoeffs(WBFM_kInterRate, WBFM_kFilterFreq, WBFM_kFilterLen)
  IN  [kind |-> "WBFM",
       demodulator_ |-> FMDemodulator(inRate, WBFM_kInterRate, WBFM_kMaxF,
                                      (WBFM_kMaxF * 9) \div 10, 101, garbage),
       monoSampler_ |-> Downsampler(WBFM_kInterRate, outRate, filterCoefs),
       stereoSampler_ |-> Downsampler(WBFM_kInterRate, outRate, filterCoefs),
       stereoSeparator_ |-> StereoSeparator(WBFM_kInterRate, WBFM_kPilotFreq),
       leftDeemph_ |-> Deemphasizer(outRate, WBFM_kDeemphTc),
       rightDeemph_ |-> Deemphasizer(outRate, WBFM_kDeemphTc)]

\* a decode that runs the separator and the stereo downsampler on every block
WBFMDecoder_decodeAlwaysFed(dec, samples, inStereo) ==
  LET Emit(dem, mono, sep, stereo, diff, deL, deR) ==
        [self |-> [dec EXCEPT
                     !.demodulator_ = dem.self,
                     !.monoSampler_ = mono.self,
                     !.stereoSeparator_ = sep.self,
                     !.stereoSampler_ = diff.self,
                     !.leftDeemph_ = deL.self,
                     !.rightDeemph_ = deR.self],
         audio |-> [left |-> deL.samples, right |-> deR.samples,
                    inStereo |-> stereo, carrier |-> dem.self.hasCarrier_],
         srcPos |-> SrcPos(dem.pos, mono.pos),
         divZero |-> FALSE]
      \* output.left[i] += diff[i] * 2 and output.right[i] -= diff[i] * 2,
      \* then the two de-emphasis filters
      Mix(dem, mono, sep, stereo, diff) ==
        Emit(dem, mono, sep, stereo, diff,
             Deemphasizer_inPlace(dec.leftDeemph_,
               IF stereo
                 THEN [i \in 1..Len(mono.out) |->
                         IF i <= Len(diff.out)
                           THEN FAdd(mono.out[i], FMul(2 * One, diff.out[i]))
                           ELSE mono.out[i]]
                 ELSE mono.out),
             Deemphasizer_inPlace(dec.rightDeemph_,
               IF stereo
                 THEN [i \in 1..Len(mono.out) |->
                         IF i <= Len(diff.out)
                           THEN FSub(mono.out[i], FMul(2 * One, diff.out[i]))
                           ELSE mono.out[i]]
                 ELSE mono.out))
      Separated(dem, mono, sep) ==
        Mix(dem, mono, sep, inStereo /\ sep.hasPilot,
            Downsampler_downsample(dec.stereoSampler_, sep.diff))
      Demodulated(dem) ==
        Separated(dem, Downsampler_downsample(dec.monoSampler_, dem.out),
                  StereoSeparator_separate(dec.stereoSeparator_, dem.out))
  IN  Demodulated(FMDemodulator_demodulateTuned(dec.demodulator_, samples))

\* a decode that adds the difference signal to the right channel and
\* subtracts it from the left
WBFMDecoder_decodeSwapped(dec, samples, inStereo) ==
  LET Emit(dem, mono, sep, stereo, diff, deL, deR) ==
        [self |-> [dec EXCEPT
                     !.demodulator_ = dem.self,
                     !.monoSampler_ = mono.self,
                     !.stereoSeparator_ = IF inStereo THEN sep.self ELSE @,
                     !.stereoSampler_ = IF stereo THEN diff.self ELSE @,
                     !.leftDeemph_ = deL.self,
                     !.rightDeemph_ = deR.self],
         audio |-> [left |-> deL.samples, right |-> deR.samples,
                    inStereo |-> stereo, carrier |-> dem.self.hasCarrier_],
         srcPos |-> SrcPos(dem.pos, mono.pos),
         divZero |-> FALSE]
      Mix(dem, mono, sep, stereo, diff) ==
        Emit(dem, mono, sep, stereo, diff,
             Deemphasizer_inPlace(dec.leftDeemph_,
               IF stereo
                 THEN [i \in 1..Len(mono.out) |->
                         FSub(mono.out[i], FMul(2 * One, diff.out[i]))]
                 ELSE mono.out),
             Deemphasizer_inPlace(dec.rightDeemph_,
               IF stereo
                 THEN [i \in 1..Len(mono.out) |->
                         FAdd(mono.out[i], FMul(2 * One, diff.out[i]))]
                 ELSE mono.out))
      Separated(dem, mono, sep) ==
        Mix(dem, mono, sep, inStereo /\ sep.hasPilot,
            Downsampler_downsample(dec.stereoSampler_, sep.diff))
      Demodulated(dem) ==
        Separated(dem, Downsampler_downsample(dec.monoSampler_, dem.out),
                  StereoSeparator_separate(dec.stereoSeparator_, dem.out))
  IN  Demodulated(FMDemodulator_demodulateTuned(dec.demodulator_, samples))

WBFMDecoder_decode(dec, samples, inStereo) ==
  LET Emit(dem, mono, sep, stereo, diff, deL, deR) ==
        [self |-> [dec EXCEPT
                     !.demodulator_ = dem.self,
                     !.monoSampler_ = mono.self,
                     !.stereoSeparator_ = IF inStereo THEN sep.self ELSE @,
                     !.stereoSampler_ = IF stereo THEN diff.self ELSE @,
                     !.leftDeemph_ = deL.self,
                     !.rightDeemph_ = deR.self],
         audio |-> [left |-> deL.samples, right |-> deR.samples,
                    inStereo |-> stereo, carrier |-> dem.self.hasCarrier_],
         srcPos |-> SrcPos(dem.pos, mono.pos),
         divZero |-> FALSE]
      \* output.left[i] += diff[i] * 2 and output.right[i] -= diff[i] * 2,
      \* then the two de-emphasis filters
      Mix(dem, mono, sep, stereo, diff) ==
        Emit(dem, mono, sep, stereo, diff,
             Deemphasizer_inPlace(dec.leftDeemph_,
               IF stereo
                 THEN [i \in 1..Len(mono.out) |->
                         IF i <= Len(diff.out)
                           THEN FAdd(mono.out[i], FMul(2 * One, diff.out[i]))
                           ELSE mono.out[i]]
                 ELSE mono.out),
             Deemphasizer_inPlace(dec.rightDeemph_,
               IF stereo
                 THEN [i \in 1..Len(mono.out) |->
                         IF i <= Len(diff.out)
                           THEN FSub(mono.out[i], FMul(2 * One, diff.out[i]))
                           ELSE mono.out[i]]
                 ELSE mono.out))
      Separated(dem, mono, sep) ==
        Mix(dem, mono, sep, inStereo /\ sep.hasPilot,
            Downsampler_downsample(dec.stereoSampler_, sep.diff))
      Demodulated(dem) ==
        Separated(dem, Downsampler_downsample(dec.monoSampler_, dem.out),
                  StereoSeparator_separate(dec.stereoSeparator_, dem.out))
  IN  Demodulated(FMDemodulator_demodulateTuned(dec.demodulator_, samples))

NBFMDecoder(inRate, outRate, maxF, garbage) ==
  [kind |-> "NBFM",
   demodulator_ |-> FMDemodulator(inRate, NBFM_kInterRate, maxF, (maxF * 8) \div 10,
                                  351, garbage),
   downSampler_ |-> Downsampler(NBFM_kInterRate, outRate,
                      getLowPassFIRCoeffs(NBFM_kInterRate, NBFM_kFilterFreq, NBFM_kFilterLen))]

\* a decode that reports stereo whenever it is asked for
NBFMDecoder_decodeAsAsked(dec, samples, inStereo) ==
  LET Emit(dem, ds) ==
        [self |-> [dec EXCEPT !.demodulator_ = dem.self, !.downSampler_ = ds.self],
         audio |-> [left |-> ds.out, right |-> ds.out,
                    inStereo |-> inStereo, carrier |-> dem.self.hasCarrier_],
         srcPos |-> SrcPos(dem.pos, ds.pos),
         divZero |-> FALSE]
      Demodulated(dem) == Emit(dem, Downsampler_downsample(dec.downSampler_, dem.out))
  IN  Demodulated(FMDemodulator_demodulateTuned(dec.demodulator_, samples))

\* a decode that reports the carrier flag as it was before the block
NBFMDecoder_decodeStaleCarrier(dec, samples, inStereo) ==
  LET Emit(dem, ds) ==
        [self |-> [dec EXCEPT !.demodulator_ = dem.self, !.downSampler_ = ds.self],
         audio |-> [left |-> ds.out, right |-> ds.out,
                    inStereo |-> FALSE, carrier |-> dec.demodulator_.hasCarrier_],
         srcPos |-> SrcPos(dem.pos, ds.pos),
         divZero |-> FALSE]
      Demodulated(dem) == Emit(dem, Downsampler_downsample(dec.downSampler_, dem.out))
  IN  Demodulated(FMDemodulator_demodulateTuned(dec.demodulator_, samples))

NBFMDecoder_decode(dec, samples, inStereo) ==
  LET Emit(dem, ds) ==
        [self |-> [dec EXCEPT !.demodulator_ = dem.self, !.downSampler_ = ds.self],
         audio |-> [left |-> ds.out, right |-> ds.out,
                    inStereo |-> FALSE, carrier |-> dem.self.hasCarrier_],
         srcPos |-> SrcPos(dem.pos, ds.pos),
         divZero |-> FALSE]
      Demodulated(dem) == Emit(dem, Downsampler_downsample(dec.downSampler_, dem.out))
  IN  Demodulated(FMDemodulator_demodulateTuned(dec.demodulator_, samples))

\* am_decoder.cc is not among the sources; the chain is the one the
\* specification describes: demodulate at the intermediate rate of
\* am_decoder.h, downsample, right = left, no de-emphasis.  The kernel
\* stand-in does not depend on its cut-off frequency, so the chain keeps the
\* bandwidth its demodulator's kernel was computed for.
AMDecoder(inRate, outRate, bandwidth, garbage) ==
  [kind |-> "AM",
   bandwidth |-> bandwidth,
   demodulator_ |-> AMDemodulator(inRate, AM_kInterRate, bandwidth \div 2, 351, garbage),
   downSampler_ |-> Downsampler(AM_kInterRate, outRate,
                      getLowPassFIRCoeffs(AM_kInterRate, AM_kFilterFreq, AM_kFilterLen))]

AMDecoder_decode(dec, samples, inStereo) ==
  LET Emit(dem, ds) ==
        [self |-> [dec EXCEPT !.demodulator_ = dem.self, !.downSampler_ = ds.self],
         audio |-> [left |-> ds.out, right |-> ds.out,
                    inStereo |-> FALSE, carrier |-> dem.self.hasCarrier_],
         srcPos |-> SrcPos(dem.pos, ds.pos),
         divZero |-> dem.divZero]
      Demodulated(dem) == Emit(dem, Downsampler_downsample(dec.downSampler_, dem.out))
  IN  Demodulated(AMDemodulator_demodulateTuned(dec.demodulator_, samples))

\* the virtual call decoder_->decode(samples, inStereo)
Decoder_decode(dec, samples, inStereo) ==
  CASE dec.kind = "WBFM" -> WBFMDecoder_decode(dec, samples, inStereo)
    [] dec.kind = "NBFM" -> NBFMDecoder_decode(dec, samples, inStereo)
    [] dec.kind = "AM"   -> AMDecoder_decode(dec, samples, inStereo)

(***************************************************************************)
(* State.                                                                  *)
(***************************************************************************)
VARIABLES
  fir,        \* a FIRFilter under test
  firStream,  \* every sample loaded into fir so far, in order
  firBlock,   \* the latest block loaded
  firLoads,   \* number of loadSamples calls so far
  firGot,     \* <<index, value>> of the latest get, or <<>>
  cursor,     \* the loop of a downsample call: its constants, i and readFrom
  decoder_,   \* DecodeInstance::decoder_, the address of the held chain
  heap,       \* the live Decoder objects, by address
  deleted,    \* for every address ever allocated, how often it was deleted
  status,     \* "running", "trapped" (killed by a fault) or "destroyed"
  msg,        \* the message handled last
  prevMsg,    \* the message handled before it
  handled,    \* number of messages handled
  responses,  \* the responses posted so far, in order
  chain       \* history of the held chain since its construction

firVars == <<fir, firStream, firBlock, firLoads, firGot, cursor>>
hostVars == <<decoder_, heap, deleted, status, msg, prevMsg, handled, responses, chain>>
vars == <<fir, firStream, firBlock, firLoads, firGot, cursor,
          decoder_, heap, deleted, status, msg, prevMsg, handled, responses, chain>>

(***************************************************************************)
(* Specification of a single FIRFilter driven by arbitrary blocks.         *)
(***************************************************************************)
FirSampleValues == {-One, 384}
\* tap i of the kernels under test: distinct values of alternating sign, so
\* that a reversed or shifted kernel gives a different sum
FirTap(i) == IF i % 2 = 0 THEN -128 * i ELSE 128 * i

RECURSIVE SeqsUpTo(_, _)
SeqsUpTo(S, n) ==
  IF n = 0 THEN {<<>>}
  ELSE LET shorter == SeqsUpTo(S, n - 1)
       IN  shorter \cup {Append(s, x) : s \in {t \in shorter : Len(t) = n - 1}, x \in S}

FirKernels == {[i \in 1..n |-> FirTap(i)] : n \in 1..MaxFirKernel}
FirBlocks == SeqsUpTo(FirSampleValues, MaxFirStream)

\* no downsample call under way
NoCursor == [stride |-> 0, size |-> 0, rateMul |-> 0, outLen |-> 0, i |-> 0, readFrom |-> <<0, 0>>]

\* the variables of the part that a specification leaves out
FirIdle ==
  /\ cursor = NoCursor
  /\ fir = FIRFilter(<<One>>, 1)
  /\ firStream = <<>>
  /\ firBlock = <<>>
  /\ firLoads = 0
  /\ firGot = <<>>

HostIdle ==
  /\ decoder_ = 0
  /\ heap = <<>>
  /\ deleted = <<>>
  /\ status = "destroyed"
  /\ msg = <<>>
  /\ prevMsg = <<>>
  /\ handled = 0
  /\ responses = <<>>
  /\ chain = <<>>

InitFIR ==
  /\ \E k \in FirKernels, s \in {1, 2} : fir = FIRFilter(k, s)
  /\ firStream = <<>>
  /\ firBlock = <<>>
  /\ firLoads = 0
  /\ firGot = <<>>
  /\ cursor = NoCursor
  /\ HostIdle

FirLoad(samples) ==
  /\ firLoads < MaxFirLoads
  /\ Len(firStream) + Len(samples) <= MaxFirStream
  /\ fir' = loadSamples(fir, samples)
  /\ firStream' = firStream \o samples
  /\ firBlock' = samples
  /\ firLoads' = firLoads + 1
  /\ firGot' = <<>>
  /\ UNCHANGED cursor
  /\ UNCHANGED hostVars

\* get is called with an index inside the latest block
FirGet(index) ==
  /\ firLoads > 0
  /\ index < Len(firBlock)
  /\ firGot' = <<index, get(fir, index)>>
  /\ UNCHANGED <<fir, firStream, firBlock, firLoads, cursor>>
  /\ UNCHANGED hostVars

NextFIR ==
  \/ \E b \in FirBlocks : FirLoad(b)
  \/ \E i \in 0..(MaxFirStream - 1) : FirGet(i)

SpecFIR == InitFIR /\ [][NextFIR]_vars

(***************************************************************************)
(* DecodeInstance (decode-module.cc): the host of one decoder chain.       *)
(*                                                                         *)
(* A message is a record                                                   *)
(*   form    "notArray", "tagNotInt" or "ok"                               *)
(*   tag     arr.Get(0).AsInt()                                            *)
(*   payload arr.Get(1) of a mode message: isDict, modulation ("<none>"    *)
(*           when missing, "<notString>"), bandwidth and maxF (NoInt when  *)
(*           missing or not an integer)                                    *)
(*   buffer  arr.Get(1) of a block message: isBuffer, bytes                *)
(*   stereo  arr.Get(2): "true", "false" or "notBool"                      *)
(***************************************************************************)
kInRate == 1024000
kOutRate == 48000
NoInt == -1

NoPayload == [isDict |-> FALSE, modulation |-> "<none>", bandwidth |-> NoInt, maxF |-> NoInt]
NoBuffer == [isBuffer |-> FALSE, bytes |-> <<>>]

ModeMsg(payload) ==
  [form |-> "ok", tag |-> 1, payload |-> payload, buffer |-> NoBuffer, stereo |-> "notBool"]
BlockMsg(buffer, stereo) ==
  [form |-> "ok", tag |-> 0, payload |-> NoPayload, buffer |-> buffer, stereo |-> stereo]
Dict(modulation, bandwidth, maxF) ==
  [isDict |-> TRUE, modulation |-> modulation, bandwidth |-> bandwidth, maxF |-> maxF]
Buffer(bytes) == [isBuffer |-> TRUE, bytes |-> bytes]
\* no message handled yet
NoMsg ==
  [form |-> "none", tag |-> 0, payload |-> NoPayload, buffer |-> NoBuffer, stereo |-> "notBool"]

\* a block of len bytes, every I byte i and every Q byte q
Block(len, i, q) == [k \in 1..len |-> IF k % 2 = 1 THEN i ELSE q]

\* a setMode that replaces the chain whatever arr.Get(1) is
is_anything(payload) == TRUE
\* arr.Get(1).is_dictionary()
is_dictionary(payload) == payload.isDict

\* process gets past its two early returns
is_block(m) == m.buffer.isBuffer /\ m.stereo # "notBool"

\* a setMode that builds a WBFM chain whatever the dictionary says
NewDecoderWideOnly(mode, garbage) == WBFMDecoder(kInRate, kOutRate, garbage)

\* the chain setMode constructs for a dictionary payload
NewDecoder(mode, garbage) ==
  IF mode.modulation = "AM"
    THEN AMDecoder(kInRate, kOutRate,
                   IF mode.bandwidth # NoInt THEN mode.bandwidth ELSE 10000, garbage)
  ELSE IF mode.modulation = "NBFM"
    THEN NBFMDecoder(kInRate, kOutRate,
                     IF mode.maxF # NoInt THEN mode.maxF ELSE 8000, garbage)
  ELSE WBFMDecoder(kInRate, kOutRate, garbage)

\* history of a newly constructed chain: the chain as constructed, the bytes
\* it was fed, the number of blocks, whether all of them had an even length,
\* and for every output sample the position in those bytes at which its
\* filter windows start
NewChainHistory(dec) ==
  [fresh |-> dec, stream |-> <<>>, blocks |-> 0, allEven |-> TRUE, srcPos |-> <<>>]

NextAddress == Len(deleted) + 1

\* a delete that leaves the object allocated
DeleteNothing(h) == h
\* operator delete applied to decoder_
DeleteDecoder(h) == [a \in DOMAIN h \ {decoder_} |-> h[a]]
CountDelete(d) == [d EXCEPT ![decoder_] = @ + 1]

\* DecodeInstance::DecodeInstance
Init ==
  /\ FirIdle
  /\ decoder_ = 1
  /\ \E garbage \in BOOLEAN :
       /\ heap = (1 :> WBFMDecoder(kInRate, kOutRate, garbage))
       /\ chain = NewChainHistory(WBFMDecoder(kInRate, kOutRate, garbage))
  /\ deleted = <<0>>
  /\ status = "running"
  /\ msg = NoMsg
  /\ prevMsg = NoMsg
  /\ handled = 0
  /\ responses = <<>>

\* a message is delivered to HandleMessage
Receive(m) ==
  /\ status = "running"
  /\ msg' = m
  /\ prevMsg' = msg
  /\ handled' = handled + 1

\* HandleMessage returning before the dispatch
Ignore(m) ==
  /\ m.form # "ok"
  /\ Receive(m)
  /\ UNCHANGED <<decoder_, heap, deleted, status, responses, chain>>
  /\ UNCHANGED firVars

\* HandleMessage, case 1: setMode(arr)
SetMode(m) ==
  /\ m.form = "ok"
  /\ m.tag = 1
  /\ Receive(m)
  /\ IF ~is_dictionary(m.payload)
       THEN UNCHANGED <<decoder_, heap, deleted, chain>>
       ELSE \E garbage \in BOOLEAN :
              LET dec == NewDecoder(m.payload, garbage)
              IN  /\ decoder_' = NextAddress
                  /\ heap' = (DeleteDecoder(heap) @@ (NextAddress :> dec))
                  /\ deleted' = Append(CountDelete(deleted), 0)
                  /\ chain' = NewChainHistory(dec)
  /\ UNCHANGED <<status, responses>>
  /\ UNCHANGED firVars

\* the response process posts for a decoded block; decodedBy and decoderLive
\* record the object decode was called on and whether it was allocated
Response(audio, address, live) ==
  [left |-> audio.left, right |-> audio.right, rate |-> kOutRate,
   stereo |-> audio.inStereo, carrier |-> audio.carrier,
   decodedBy |-> address, decoderLive |-> live]

\* HandleMessage, default case: process(arr)
Process(m) ==
  /\ m.form = "ok"
  /\ m.tag # 1
  /\ Receive(m)
  /\ IF ~is_block(m)
       THEN UNCHANGED <<decoder_, heap, deleted, status, responses, chain>>
       ELSE LET base == Len(chain.stream)
                \* an integer division by zero either traps, which kills the
                \* module, or yields a value (no use is made of it)
                Post(r) ==
                  \/ /\ r.divZero
                     /\ status' = "trapped"
                     /\ UNCHANGED <<decoder_, heap, deleted, responses, chain>>
                  \/ /\ heap' = [heap EXCEPT ![decoder_] = r.self]
                     /\ responses' = Append(responses,
                                        Response(r.audio, decoder_, decoder_ \in DOMAIN heap))
                     /\ chain' = [chain EXCEPT
                          !.stream = @ \o m.buffer.bytes,
                          !.blocks = @ + 1,
                          !.allEven = @ /\ Len(m.buffer.bytes) % 2 = 0,
                          !.srcPos = @ \o [i \in 1..Len(r.srcPos) |->
                                             base + 2 * r.srcPos[i]]]
                     /\ UNCHANGED <<decoder_, deleted, status>>
            IN  Post(Decoder_decode(heap[decoder_], samplesFromUint8(m.buffer.bytes),
                                    m.stereo = "true"))
  /\ UNCHANGED firVars

\* DecodeInstance::~DecodeInstance
DestroyInstance ==
  /\ status = "running"
  /\ heap' = DeleteDecoder(heap)
  /\ deleted' = CountDelete(deleted)
  /\ status' = "destroyed"
  /\ UNCHANGED <<decoder_, msg, prevMsg, handled, responses, chain>>
  /\ UNCHANGED firVars

(***************************************************************************)
(* Specification of the host under any interleaving of messages.           *)
(***************************************************************************)
MalformedMsgs ==
  {[form |-> "notArray", tag |-> 0, payload |-> NoPayload, buffer |-> NoBuffer,
    stereo |-> "notBool"],
   [form |-> "tagNotInt", tag |-> 0, payload |-> NoPayload, buffer |-> NoBuffer,
    stereo |-> "notBool"]}

ChainModes == {Dict("AM", NoInt, NoInt), Dict("NBFM", NoInt, NoInt), Dict("WBFM", NoInt, NoInt)}

ModePayloads ==
  {NoPayload, Dict("<none>", NoInt, NoInt), Dict("<notString>", NoInt, NoInt)} \cup ChainModes

ModeMsgs == {ModeMsg(p) : p \in ModePayloads}

\* an empty block, a block of one output sample, and the two messages that
\* process returns on
BlockMsgs ==
  {BlockMsg(Buffer(Block(0, 128, 128)), "false"),
   BlockMsg(Buffer(Block(44, 200, 100)), "true"),
   BlockMsg(NoBuffer, "true"),
   BlockMsg(Buffer(Block(44, 200, 100)), "notBool")}

Next ==
  \/ \E m \in MalformedMsgs : handled < MaxMsgs /\ Ignore(m)
  \/ \E m \in ModeMsgs : handled < MaxMsgs /\ SetMode(m)
  \/ \E m \in BlockMsgs : handled < MaxMsgs /\ Process(m)
  \/ DestroyInstance

Spec == Init /\ [][Next]_vars

(***************************************************************************)
(* Specification of one chain decoding blocks: the host after its          *)
(* construction and one mode message, then block messages only.            *)
(***************************************************************************)
InitDecode ==
  /\ FirIdle
  /\ decoder_ = 2
  /\ \E mode \in ChainModes, garbage \in BOOLEAN :
       /\ heap = (2 :> NewDecoder(mode, garbage))
       /\ chain = NewChainHistory(NewDecoder(mode, garbage))
       /\ msg = ModeMsg(mode)
  /\ deleted = <<1, 0>>
  /\ status = "running"
  /\ prevMsg = NoMsg
  /\ handled = 1
  /\ responses = <<>>

\* the blocks: empty, odd, and of one output sample; silence (all 128), a
\* carrier in Q only, a carrier in I and Q
DecodeBlocks ==
  {Block(0, 128, 128), Block(43, 200, 100), Block(44, 128, 128),
   Block(44, 128, 192), Block(44, 200, 100)}

DecodeBlockMsgs == {BlockMsg(Buffer(b), st) : b \in DecodeBlocks, st \in {"true", "false"}}

NextDecode == \E m \in DecodeBlockMsgs : chain.blocks < MaxBlocks /\ Process(m)

SpecDecode == InitDecode /\ [][NextDecode]_vars

(***************************************************************************)
(* Specification of one chain decoding one block of any even length up to  *)
(* 2 * MaxPairs bytes.                                                     *)
(***************************************************************************)
LengthBlockMsgs == {BlockMsg(Buffer(Block(2 * n, 128, 128)), "false") : n \in 0..MaxPairs}

NextLength == \E m \in LengthBlockMsgs : chain.blocks = 0 /\ Process(m)

SpecLength == InitDecode /\ [][NextLength]_vars

(***************************************************************************)
(* Specification of one chain decoding short blocks: every length from 0   *)
(* to MaxShortLen bytes, and the lengths on either side of one sample of   *)
(* the NBFM demodulator (2 * 1024000 / 48000 = 42.67 bytes) and of the     *)
(* WBFM and AM audio stage (7 intermediate samples, 42.67 bytes).  The     *)
(* blocks hold a carrier, I = 200 and Q = 100.                             *)
(***************************************************************************)
ShortBlocks == {Block(n, 200, 100) : n \in (0..MaxShortLen) \cup {42, 43}}

ShortBlockMsgs == {BlockMsg(Buffer(b), "false") : b \in ShortBlocks}

NextShort == \E m \in ShortBlockMsgs : chain.blocks < MaxBlocks /\ Process(m)

SpecShort == InitDecode /\ [][NextShort]_vars

(***************************************************************************)
(* Specification of the read loop of one downsample call, one iteration a  *)
(* step: for (i = 0; i < outLen; ++i, readFrom += rateMul_).  stride is 1  *)
(* for Downsampler and 2 for IQDownsampler; size is samples.size().        *)
(***************************************************************************)
\* the state of the loop before its first iteration
StartCursor(stride, inRate, outRate, size) ==
  [stride |-> stride, size |-> size,
   rateMul |-> F32FromRatio(inRate, outRate),
   outLen |-> F32QuotInt(size, stride * F32FromRatio(inRate, outRate)),
   i |-> 0, readFrom |-> <<0, 0>>]

\* the index passed to FIRFilter::get in the iteration about to run (for
\* IQDownsampler the index of I; Q is read at the next index)
CursorIndex == cursor.stride * cursor.readFrom[1]

\* <<stride, inRate, outRate>> of the downsamplers of the three chains
CursorDownsamplers ==
  {<<2, kInRate, WBFM_kInterRate>>, <<2, kInRate, NBFM_kInterRate>>,
   <<1, WBFM_kInterRate, kOutRate>>, <<1, NBFM_kInterRate, kOutRate>>}

CursorSizes == {0, 43, 44, MaxCursorLen}

InitCursor ==
  /\ \E d \in CursorDownsamplers, size \in CursorSizes :
       cursor = StartCursor(d[1], d[2], d[3], size)
  /\ fir = FIRFilter(<<One>>, 1)
  /\ firStream = <<>>
  /\ firBlock = <<>>
  /\ firLoads = 0
  /\ firGot = <<>>
  /\ HostIdle

\* one iteration: the read at (int) readFrom, then ++i, readFrom += rateMul_
CursorStep ==
  /\ cursor.i < cursor.outLen
  /\ cursor' = [cursor EXCEPT !.i = @ + 1,
                              !.readFrom = F32AddWide(@, cursor.rateMul)]
  /\ UNCHANGED <<fir, firStream, firBlock, firLoads, firGot>>
  /\ UNCHANGED hostVars

NextCursor == CursorStep

SpecCursor == InitCursor /\ [][NextCursor]_vars

(***************************************************************************)
(* Specification of the host receiving mode messages only, with every kind *)
(* of payload: the three modulations with and without their numeric field, *)
(* other modulation names, no modulation, no dictionary.                   *)
(***************************************************************************)
ModeSelectPayloads ==
  {NoPayload,
   Dict("AM", NoInt, NoInt), Dict("AM", 6000, NoInt), Dict("AM", NoInt, 5000),
   Dict("NBFM", NoInt, NoInt), Dict("NBFM", NoInt, 5000), Dict("NBFM", 6000, NoInt),
   Dict("WBFM", NoInt, NoInt), Dict("WBFM", 6000, 5000),
   Dict("USB", NoInt, NoInt), Dict("am", 6000, NoInt),
   Dict("<none>", 6000, 5000), Dict("<notString>", NoInt, NoInt)}

ModeSelectMsgs == {ModeMsg(p) : p \in ModeSelectPayloads}

NextMode == \E m \in ModeSelectMsgs : handled < MaxMsgs /\ SetMode(m)

SpecMode == Init /\ [][NextMode]_vars

(***************************************************************************)
(* Specification of the WBFM chain of the constructor decoding one long    *)
(* stream without pilot, block by block, with stereo asked for; a block    *)
(* decoded without stereo ends the stream.                                 *)
(***************************************************************************)
StereoBlock == Block(2 * StereoBlockPairs, 128, 128)

StereoStreamBlock ==
  /\ chain.blocks < MaxStereoBlocks
  /\ msg.stereo # "false"
  /\ Process(BlockMsg(Buffer(StereoBlock), "true"))

MonoStreamBlock ==
  /\ chain.blocks < MaxStereoBlocks
  /\ msg.stereo # "false"
  /\ Process(BlockMsg(Buffer(StereoBlock), "false"))

NextStereo ==
  \/ StereoStreamBlock
  \/ MonoStreamBlock

SpecStereo == Init /\ [][NextStereo]_vars

(***************************************************************************)
(* Specification of the WBFM chain of the constructor decoding, with       *)
(* stereo asked for, blocks that drive the separator through its cases:    *)
(* silence, a carrier, the same carrier with its phase reversed (the       *)
(* discriminator answers NaN at the reversal), a carrier in Q only.        *)
(***************************************************************************)
PilotBlocks ==
  {Block(44, 128, 128), Block(44, 200, 100), Block(44, 56, 156), Block(44, 128, 192)}

PilotBlockMsgs == {BlockMsg(Buffer(b), "true") : b \in PilotBlocks}

NextPilot == \E m \in PilotBlockMsgs : chain.blocks < MaxPilotBlocks /\ Process(m)

SpecPilot == Init /\ [][NextPilot]_vars

(***************************************************************************)
(* C1.  Block independence of the FIR filter.                              *)
(***************************************************************************)
\* the whole stream seen by the filter, preceded by the zero history
FirPadded == Zeros(fir.offset_) \o firStream
\* number of stream samples that preceded the latest block
FirBase == Len(firStream) - Len(firBlock)

RECURSIVE StreamFilter(_, _, _, _, _)
\* the kernel applied to the concatenated stream at absolute position pos
StreamFilter(coefsRev, step, padded, pos, k) ==
  IF k >= Len(coefsRev) THEN 0
  ELSE FAdd(FMul(coefsRev[k + 1], padded[pos + k * step + 1]),
            StreamFilter(coefsRev, step, padded, pos, k + 1))

\* C1: after every loadSamples the working window is the last (N-1)*s
\* values that preceded the latest block in the stream (zeros before the
\* first block) followed by the latest block, and get(i) is the value of
\* filtering the concatenated stream at the same stream position.
C1_BlockIndependence ==
  /\ fir.curSamples_ =
       SubSeq(FirPadded, FirBase + 1, FirBase + fir.offset_) \o firBlock
  /\ firGot # <<>> =>
       firGot[2] = StreamFilter(fir.coefficients_, fir.step_, FirPadded,
                                FirBase + firGot[1], 0)

\* a block shorter than the history was loaded after earlier non-zero
\* samples, and a filtered value was read across the block boundary
C1_Witness ==
  /\ firLoads >= 2
  /\ fir.offset_ >= 2
  /\ Len(firBlock) >= 1
  /\ Len(firBlock) < fir.offset_
  /\ \E i \in 1..FirBase : firStream[i] # 0
  /\ firGot # <<>>
  /\ firGot[2] # 0

(***************************************************************************)
(* C2 to C7.  One chain decoding blocks (SpecDecode, SpecLength).          *)
(***************************************************************************)
Last(s) == s[Len(s)]
AllBytes(s, b) == \A i \in DOMAIN s : s[i] = b
AllZero(s) == \A i \in DOMAIN s : s[i] = 0

\* C2: when a chain has decoded a stream in two consecutive even-length
\* blocks, its output samples are as many, and taken at the same positions
\* of the stream, as those of a fresh chain decoding the whole stream as a
\* single block.
C2_Continuity ==
  (chain.blocks = 2 /\ chain.allEven) =>
    LET SameAs(whole) ==
          chain.srcPos = [i \in 1..Len(whole.srcPos) |-> 2 * whole.srcPos[i]]
    IN  SameAs(Decoder_decode(chain.fresh, samplesFromUint8(chain.stream), FALSE))

C4_EmptyOrOddBlock ==
  (msg.tag = 0 /\ is_block(msg)
     /\ (Len(msg.buffer.bytes) = 0 \/ Len(msg.buffer.bytes) % 2 = 1)) =>
    /\ status = "running"
    /\ responses # <<>>
    /\ Last(responses).left = <<>>
    /\ Last(responses).right = <<>>

\* C5: a fresh WBFM or NBFM chain given a block whose every byte is 128
\* returns audio whose every sample is 0, and carrier = false.
C5_ZeroInput ==
  (chain.blocks = 1 /\ chain.fresh.kind \in {"WBFM", "NBFM"}
     /\ AllBytes(chain.stream, 128)) =>
    /\ AllZero(Last(responses).left)
    /\ AllZero(Last(responses).right)
    /\ ~Last(responses).carrier

\* C6: a WBFM chain asked for stereo on a signal without pilot (silence, or
\* nothing at all) answers inStereo = false in every block, the first one
\* of the chain included.
C6_NoPilotNoStereo ==
  (chain.blocks >= 1 /\ chain.fresh.kind = "WBFM" /\ msg.stereo = "true"
     /\ AllBytes(chain.stream, 128)) =>
    ~Last(responses).stereo

\* the mean of I*I + Q*Q over the samples of iq exceeds 0.002
MeanPowerAboveThreshold(iq) ==
  AboveCarrierThreshold(
    FSum([i \in 1..Len(iq.I) |-> FMul(iq.I[i], iq.I[i]) + FMul(iq.Q[i], iq.Q[i])]),
    Len(iq.I))

\* C7: after an FM chain has demodulated a block, carrier is true exactly
\* when the mean of I*I + Q*Q over the block's downsampled samples exceeds
\* 0.002.
C7_CarrierIffMeanPower ==
  [][(chain'.blocks = chain.blocks + 1 /\ heap[decoder_].kind \in {"WBFM", "NBFM"}) =>
       Last(responses').carrier =
         MeanPowerAboveThreshold(
           IQDownsampler_downsample(heap[decoder_].demodulator_.downsampler_,
                                    samplesFromUint8(msg'.buffer.bytes)))]_vars

(***************************************************************************)
(* C8 to C10.  The host under any interleaving of messages (Spec).         *)
(***************************************************************************)
\* the chains a and b answer every block of DecodeBlocks alike and are left
\* in the same state by it
SameBehaviour(a, b) ==
  \A bytes \in DecodeBlocks, inStereo \in BOOLEAN :
    Decoder_decode(a, samplesFromUint8(bytes), inStereo)
      = Decoder_decode(b, samplesFromUint8(bytes), inStereo)

\* C8: a mode message M handled right after the same mode message M leaves
\* a chain that answers every following block as the chain that the first M
\* left, whatever was handled before.
C8_ReselectionIdempotent ==
  [][(handled' = handled + 1 /\ msg'.form = "ok" /\ msg'.tag = 1 /\ msg' = msg) =>
       SameBehaviour(heap[decoder_], heap'[decoder_'])]_vars

\* the same parseable mode was selected twice in a row after a block had
\* been decoded
C8_Witness ==
  /\ msg.form = "ok"
  /\ msg.tag = 1
  /\ is_dictionary(msg.payload)
  /\ msg.payload.modulation = "NBFM"
  /\ prevMsg = msg
  /\ responses # <<>>
  /\ status = "running"

NamesNoModulation(payload) ==
  ~payload.isDict \/ payload.modulation \in {"<none>", "<notString>"}

\* C10: a tag-1 message whose payload is not a dictionary, or whose
\* modulation is missing or not a string, leaves the current chain and its
\* state unchanged: the following blocks are answered as if the message had
\* not been sent.
C10_UnparseableModeIgnored ==
  [][(handled' = handled + 1 /\ msg'.form = "ok" /\ msg'.tag = 1
        /\ NamesNoModulation(msg'.payload)) =>
       SameBehaviour(heap[decoder_], heap'[decoder_'])]_vars

\* C10 as the code has it: a tag-1 message whose payload is not a dictionary
\* leaves the chain, its state and its address unchanged; one whose payload
\* is a dictionary without a modulation string replaces the chain with a
\* newly constructed WBFM chain.
C10_NonDictionaryModeIgnored ==
  [][(handled' = handled + 1 /\ msg'.form = "ok" /\ msg'.tag = 1
        /\ NamesNoModulation(msg'.payload)) =>
       IF ~msg'.payload.isDict
         THEN /\ decoder_' = decoder_
              /\ heap' = heap
              /\ deleted' = deleted
              /\ chain' = chain
         ELSE /\ decoder_' # decoder_
              /\ \E garbage \in BOOLEAN :
                   heap' = (decoder_' :> WBFMDecoder(kInRate, kOutRate, garbage))
              /\ deleted'[decoder_] = 1]_vars

\* a tag-1 message that is no dictionary was handled by a chain that had
\* decoded a block, and the chain still has that history
C10_Witness ==
  /\ msg.form = "ok"
  /\ msg.tag = 1
  /\ ~msg.payload.isDict
  /\ status = "running"
  /\ chain.blocks >= 1
  /\ heap[decoder_] # chain.fresh

(***************************************************************************)
(* C11.  Mode selection (SpecMode).                                        *)
(***************************************************************************)
\* C11: a tag-1 message with a dictionary payload installs an AM chain for
\* modulation "AM" (bandwidth the payload's integer bandwidth, else 10000),
\* an NBFM chain for "NBFM" (maxF the payload's integer maxF, else 8000) and
\* a WBFM chain for every other modulation; always for 1,024,000 Hz in and
\* 48,000 Hz out.
C11_ModeSelection ==
  [][(handled' = handled + 1 /\ msg'.form = "ok" /\ msg'.tag = 1
        /\ msg'.payload.isDict) =>
       LET Installed(p, dec) ==
             \E garbage \in BOOLEAN :
               dec = IF p.modulation = "AM"
                       THEN AMDecoder(1024000, 48000,
                              IF p.bandwidth = NoInt THEN 10000 ELSE p.bandwidth, garbage)
                     ELSE IF p.modulation = "NBFM"
                       THEN NBFMDecoder(1024000, 48000,
                              IF p.maxF = NoInt THEN 8000 ELSE p.maxF, garbage)
                     ELSE WBFMDecoder(1024000, 48000, garbage)
       IN  Installed(msg'.payload, heap'[decoder_'])]_vars

\* an AM chain of the default bandwidth replaced an NBFM chain that had
\* been given its maxF
C11_Witness ==
  /\ status = "running"
  /\ msg.tag = 1
  /\ msg.payload = Dict("AM", NoInt, 5000)
  /\ prevMsg.payload = Dict("NBFM", NoInt, 5000)
  /\ heap[decoder_].kind = "AM"
  /\ heap[decoder_].bandwidth = 10000

(***************************************************************************)
(* C12.  Responses and blocks (Spec).                                      *)
(***************************************************************************)
\* the message carries a block that process decodes
WellFormedBlock(m) == m.form = "ok" /\ m.tag # 1 /\ is_block(m)

\* C12: handling a message whose tag is an integer other than 1 and that
\* carries an array buffer and a boolean flag appends exactly one response,
\* the decoding of that block by the held chain, to the responses posted so
\* far; handling any other message posts nothing.
C12_ResponsePerBlock ==
  [][handled' = handled + 1 =>
       IF WellFormedBlock(msg')
         THEN /\ Len(responses') = Len(responses) + 1
              /\ SubSeq(responses', 1, Len(responses)) = responses
              /\ LET Decoded(r) ==
                       Last(responses') = Response(r.audio, decoder_, TRUE)
                 IN  Decoded(Decoder_decode(heap[decoder_],
                                            samplesFromUint8(msg'.buffer.bytes),
                                            msg'.stereo = "true"))
         ELSE responses' = responses]_vars

(***************************************************************************)
(* C13 to C15.  One chain decoding blocks (SpecDecode).                    *)
(***************************************************************************)
\* the output of the demodulator of an NBFM or AM chain for a block
MonoDemodulated(dec, samples) ==
  IF dec.kind = "AM" THEN AMDemodulator_demodulateTuned(dec.demodulator_, samples).out
  ELSE FMDemodulator_demodulateTuned(dec.demodulator_, samples).out

\* C13: every block decoded by an NBFM or AM chain is answered with
\* inStereo = false and right equal to left, whatever the stereo flag and
\* the blocks before; left is the output of the audio downsampler, without
\* de-emphasis.
C13_MonoOnlyChains ==
  [][(chain'.blocks = chain.blocks + 1 /\ heap[decoder_].kind \in {"NBFM", "AM"}) =>
       LET Mono(r, audio) ==
             /\ ~r.stereo
             /\ r.right = r.left
             /\ r.left = audio
       IN  Mono(Last(responses'),
                Downsampler_downsample(
                  heap[decoder_].downSampler_,
                  MonoDemodulated(heap[decoder_],
                                  samplesFromUint8(msg'.buffer.bytes))).out)]_vars

\* an NBFM chain asked for stereo answered its second block with a non-zero
\* sample, in mono
C13_Witness ==
  /\ chain.blocks = 2
  /\ chain.fresh.kind = "NBFM"
  /\ msg.stereo = "true"
  /\ Last(responses).left # <<>>
  /\ Last(responses).left[1] # 0
  /\ Last(responses).right = Last(responses).left
  /\ ~Last(responses).stereo

\* C14: when an AM chain that has seen nothing but zero samples demodulates
\* a block of zero samples (mean amplitude 0), AMDemodulator::demodulateTuned
\* emits 0 for every output sample, not NaN, and leaves carrier = false.
C14_AMZeroMean ==
  [][(chain'.blocks = chain.blocks + 1 /\ heap[decoder_].kind = "AM"
        /\ msg'.buffer.bytes # <<>> /\ AllBytes(chain'.stream, 128)) =>
       LET Silent(r) ==
             /\ r.out # <<>>
             /\ AllZero(r.out)
             /\ ~r.self.hasCarrier_
       IN  Silent(AMDemodulator_demodulateTuned(
                    heap[decoder_].demodulator_,
                    samplesFromUint8(msg'.buffer.bytes)))]_vars

\* C15: a WBFM chain answers inStereo = true exactly when stereo was asked
\* for and the separator reported a pilot for the block; then, and only
\* then, left = mono + 2 * diff and right = mono - 2 * diff before
\* de-emphasis, diff being as long as mono; otherwise left and right are
\* both the mono downsampler's output before de-emphasis.
C15_StereoDecision ==
  [][(chain'.blocks = chain.blocks + 1 /\ heap[decoder_].kind = "WBFM") =>
       \A r \in {Last(responses')}, asked \in {msg'.stereo = "true"},
          dem \in {FMDemodulator_demodulateTuned(
                     heap[decoder_].demodulator_,
                     samplesFromUint8(msg'.buffer.bytes)).out} :
         \A mono \in {Downsampler_downsample(heap[decoder_].monoSampler_, dem).out},
            sep \in {StereoSeparator_separate(heap[decoder_].stereoSeparator_, dem)} :
           /\ r.stereo = (asked /\ sep.hasPilot)
           /\ \A diff \in {Downsampler_downsample(heap[decoder_].stereoSampler_,
                                                   sep.diff).out} :
                /\ Len(diff) = Len(mono)
                /\ \A left \in {[i \in 1..Len(mono) |->
                                   IF r.stereo THEN mono[i] + 2 * diff[i] ELSE mono[i]]},
                      right \in {[i \in 1..Len(mono) |->
                                   IF r.stereo THEN mono[i] - 2 * diff[i] ELSE mono[i]]} :
                     /\ r.left = Deemphasizer_inPlace(heap[decoder_].leftDeemph_,
                                                      left).samples
                     /\ r.right = Deemphasizer_inPlace(heap[decoder_].rightDeemph_,
                                                       right).samples]_vars

\* stereo was asked for, the separator had lost the pilot, and the block
\* was answered in mono, after blocks that were answered in stereo with
\* different channels
C15_Witness ==
  /\ chain.blocks >= 2
  /\ chain.fresh.kind = "WBFM"
  /\ msg.stereo = "true"
  /\ ~Last(responses).stereo
  /\ responses[1].stereo
  /\ responses[2].left # responses[2].right
  /\ ~FLt(heap[decoder_].stereoSeparator_.cavg_, kCorrThres * AvgRes)

(***************************************************************************)
(* C16.  The separator's table index (SpecPilot).                          *)
(***************************************************************************)
\* C16: for every sample of every block the separator processes, in every
\* separator state reached, corr is within [-4, 4], the table index
\* round((corr + 4) * 1000) is within 0..8000, and the average of corr * corr
\* stays within [0, 16].
C16_TableIndexInRange ==
  [][(chain'.blocks = chain.blocks + 1 /\ heap[decoder_].kind = "WBFM"
        /\ msg'.stereo = "true") =>
       \A dem \in {FMDemodulator_demodulateTuned(
                     heap[decoder_].demodulator_,
                     samplesFromUint8(msg'.buffer.bytes)).out} :
         \A k \in 0..(Len(dem) - 1) :
           \A s \in {StereoSeparator_separate(heap[decoder_].stereoSeparator_,
                                              SubSeq(dem, 1, k)).self},
              after \in {StereoSeparator_separate(heap[decoder_].stereoSeparator_,
                                                  SubSeq(dem, 1, k + 1)).self} :
             \A corr \in {Correlation(
                             ExpAverage_add(s.qavgWeight, s.qavg_, FMul(dem[k + 1], s.cos_)),
                             ExpAverage_add(s.iavgWeight, s.iavg_, FMul(dem[k + 1], s.sin_)))} :
               /\ corr >= -4 * One
               /\ corr <= 4 * One
               /\ TableIndex(corr) \in 0..8000
               /\ after.cavg_ >= 0
               /\ after.cavg_ <= 16 * One * AvgRes]_vars

\* the last sample of a second or later block had vdev > 0 and
\* |hdev / vdev| > 4, so that corr was clamped
C16_Witness ==
  /\ status = "running"
  /\ chain.blocks >= 2
  /\ msg.stereo = "true"
  /\ FGt(heap[decoder_].stereoSeparator_.iavg_, 0)
  /\ ~IsNaN(heap[decoder_].stereoSeparator_.qavg_)
  /\ Abs(heap[decoder_].stereoSeparator_.qavg_) > 4 * heap[decoder_].stereoSeparator_.iavg_
  /\ heap[decoder_].stereoSeparator_.cavg_ > 0

(***************************************************************************)
(* C17.  The separator's detuning tables (SpecPilot).                      *)
(***************************************************************************)
\* C17: entry i of the tables of the held WBFM chain's separator, for every
\* i in 0..8000, is for the frequency pilot + (i / 100 - 40) Hz with i / 100
\* an exact fraction (compared here in hundredths of a Hz), so that
\* consecutive entries are for different frequencies.
C17_TableResolution ==
  (status = "running" /\ heap[decoder_].kind = "WBFM") =>
    \A pilot \in {heap[decoder_].stereoSeparator_.pilotFreq} :
      /\ \A i \in 0..8000 : 100 * TableFreq(pilot, i) = 100 * pilot + i - 4000
      /\ \A i \in 0..7999 : TableFreq(pilot, i + 1) # TableFreq(pilot, i)

(***************************************************************************)
(* C18.  The indices read by the downsamplers (SpecCursor).                *)
(***************************************************************************)
\* C18: every index Downsampler::downsample passes to FIRFilter::get is
\* within 0..size - 1, and every index IQDownsampler::downsample passes for
\* I is within 0..size - 2 (Q being read at its successor), for every
\* block length and every downsampler of the chains.
C18_ReadsInsideWindow ==
  cursor.i < cursor.outLen =>
    /\ CursorIndex >= 0
    /\ CursorIndex <= cursor.size - cursor.stride

(***************************************************************************)
(* C19.  Short blocks (SpecShort).                                         *)
(***************************************************************************)
\* the part of the window that the next loadSamples keeps
History(f) == LastN(f.curSamples_, f.offset_)

\* the Downsampler of a chain that every decode calls
AudioSampler(dec) == IF dec.kind = "WBFM" THEN dec.monoSampler_ ELSE dec.downSampler_

\* the intermediate rate of a chain
InterRate(dec) ==
  CASE dec.kind = "WBFM" -> WBFM_kInterRate
    [] dec.kind = "NBFM" -> NBFM_kInterRate
    [] dec.kind = "AM" -> AM_kInterRate

\* the output of the demodulator of a chain for a block
DemodulatorOutput(dec, samples) ==
  IF dec.kind = "AM" THEN AMDemodulator_demodulateTuned(dec.demodulator_, samples).out
  ELSE FMDemodulator_demodulateTuned(dec.demodulator_, samples).out

\* C19: a block shorter than one output sample (fewer than 2r bytes for the
\* IQDownsampler of a chain, fewer than r samples for its Downsampler) makes
\* downsample return an empty output, and the filter's history afterwards
\* is the last (N-1)*stride values of the stream, the short block's samples
\* included.
C19_ShortBlock ==
  [][chain'.blocks = chain.blocks + 1 =>
       \A dec \in {heap[decoder_]}, after \in {heap'[decoder_]},
          samples \in {samplesFromUint8(msg'.buffer.bytes)} :
         \A iq \in {IQDownsampler_downsample(dec.demodulator_.downsampler_, samples)},
            dem \in {DemodulatorOutput(dec, samples)} :
           /\ Len(samples) * InterRate(dec) < 2 * kInRate =>
                /\ iq.I = <<>>
                /\ iq.Q = <<>>
                /\ History(after.demodulator_.downsampler_.filter_)
                     = LastN(History(dec.demodulator_.downsampler_.filter_) \o samples,
                             dec.demodulator_.downsampler_.filter_.offset_)
                /\ History(after.demodulator_.downsampler_.filter_)
                     = LastN(Zeros(dec.demodulator_.downsampler_.filter_.offset_)
                               \o samplesFromUint8(chain'.stream),
                             dec.demodulator_.downsampler_.filter_.offset_)
           /\ Len(dem) * kOutRate < InterRate(dec) =>
                /\ Downsampler_downsample(AudioSampler(dec), dem).out = <<>>
                /\ Last(responses').left = <<>>
                /\ History(AudioSampler(after).filter_)
                     = LastN(History(AudioSampler(dec).filter_) \o dem,
                             AudioSampler(dec).filter_.offset_)]_vars

\* an NBFM chain answered a second block of 42 bytes, one byte short of an
\* output sample, with no audio, and the history of its demodulator's filter
\* is the end of that block
C19_Witness ==
  /\ chain.blocks = 2
  /\ chain.fresh.kind = "NBFM"
  /\ Len(msg.buffer.bytes) = 42
  /\ Last(responses).left = <<>>
  /\ History(heap[decoder_].demodulator_.downsampler_.filter_)
       = LastN(samplesFromUint8(msg.buffer.bytes),
               heap[decoder_].demodulator_.downsampler_.filter_.offset_)
  /\ History(heap[decoder_].demodulator_.downsampler_.filter_)[1] # 0

(***************************************************************************)
(* C20.  The mean that the AM demodulator removes (SpecDecode).            *)
(***************************************************************************)
\* C20: when the AM demodulator is given a block with at least one
\* downsampled sample, the value it subtracts from the I samples, and the
\* one it subtracts from the Q samples, is their arithmetic mean: after the
\* subtraction the I values, and the Q values, sum to zero (to within one
\* unit of resolution a sample).
C20_AMMeanRemoved ==
  [][(chain'.blocks = chain.blocks + 1 /\ heap[decoder_].kind = "AM") =>
       \A iq \in {IQDownsampler_downsample(heap[decoder_].demodulator_.downsampler_,
                                            samplesFromUint8(msg'.buffer.bytes))} :
         iq.I # <<>> =>
           \A iAvg \in {AccumulatedMean(iq.I)}, qAvg \in {AccumulatedMean(iq.Q)} :
             /\ Abs(FSum([i \in 1..Len(iq.I) |-> iq.I[i] - iAvg])) <= Len(iq.I)
             /\ Abs(FSum([i \in 1..Len(iq.Q) |-> iq.Q[i] - qAvg])) <= Len(iq.Q)]_vars

(***************************************************************************)
(* C21.  De-emphasis of the two channels (SpecPilot).                      *)
(***************************************************************************)
\* left and right of a WBFM chain's block before the de-emphasis
PreDeemphasis(dec, samples, inStereo) ==
  LET Mixed(mono, stereo, diff) ==
        [left  |-> [i \in 1..Len(mono) |->
                      IF stereo /\ i <= Len(diff)
                        THEN FAdd(mono[i], FMul(2 * One, diff[i])) ELSE mono[i]],
         right |-> [i \in 1..Len(mono) |->
                      IF stereo /\ i <= Len(diff)
                        THEN FSub(mono[i], FMul(2 * One, diff[i])) ELSE mono[i]]]
      Separated(mono, sep) ==
        Mixed(mono, inStereo /\ sep.hasPilot,
              Downsampler_downsample(dec.stereoSampler_, sep.diff).out)
      Demodulated(dem) ==
        Separated(Downsampler_downsample(dec.monoSampler_, dem).out,
                  StereoSeparator_separate(dec.stereoSeparator_, dem))
  IN  Demodulated(FMDemodulator_demodulateTuned(dec.demodulator_, samples).out)

\* the pre-de-emphasis samples of a stream decoded in stereo by dec in
\* blocks of len bytes, all blocks put end to end
RECURSIVE PreDeemphasisStream(_, _, _)
PreDeemphasisStream(dec, bytes, len) ==
  IF bytes = <<>> THEN [left |-> <<>>, right |-> <<>>]
  ELSE LET Joined(pre, rest) ==
             [left |-> pre.left \o rest.left, right |-> pre.right \o rest.right]
           Cut(samples) ==
             Joined(PreDeemphasis(dec, samples, TRUE),
                    PreDeemphasisStream(WBFMDecoder_decode(dec, samples, TRUE).self,
                                        SubSeq(bytes, len + 1, Len(bytes)), len))
       IN  Cut(samplesFromUint8(SubSeq(bytes, 1, len)))

\* the left samples, and the right samples, of all responses end to end
RECURSIVE ResponseStream(_)
ResponseStream(rs) ==
  IF rs = <<>> THEN [left |-> <<>>, right |-> <<>>]
  ELSE LET Joined(rest) ==
             [left |-> rs[1].left \o rest.left, right |-> rs[1].right \o rest.right]
       IN  Joined(ResponseStream(Tail(rs)))

\* y[n] = (1 - a) * x[n] + a * y[n - 1], y[0] = 0
IsDeemphasisOf(y, x, a) ==
  /\ Len(y) = Len(x)
  /\ \A n \in 1..Len(x) :
       y[n] = FAdd(FMul(One - a, x[n]), FMul(a, IF n = 1 THEN 0 ELSE y[n - 1]))

\* C21: on a WBFM chain the left output of all blocks, end to end, is
\* y[n] = (1 - a) * x[n] + a * y[n - 1] over the left samples before
\* de-emphasis of all blocks end to end, with y starting at 0, and the right
\* output is the same function of the right samples: neither depends on the
\* other channel nor on where the blocks were cut.
C21_IndependentDeemphasis ==
  (chain.fresh.kind = "WBFM" /\ chain.blocks >= 1 /\ Len(responses) = chain.blocks) =>
    \A pre \in {PreDeemphasisStream(chain.fresh, chain.stream,
                                      Len(chain.stream) \div chain.blocks)},
       out \in {ResponseStream(responses)} :
      /\ IsDeemphasisOf(out.left, pre.left, chain.fresh.leftDeemph_.mult_)
      /\ IsDeemphasisOf(out.right, pre.right, chain.fresh.rightDeemph_.mult_)
      /\ out.left = Deemphasizer_inPlace(chain.fresh.leftDeemph_, pre.left).samples
      /\ out.right = Deemphasizer_inPlace(chain.fresh.rightDeemph_, pre.right).samples

\* three blocks were decoded in stereo, the channels differed before and
\* after the de-emphasis, and the left filter carried a non-zero value from
\* the first block into the second
C21_Witness ==
  /\ chain.fresh.kind = "WBFM"
  /\ chain.blocks = 3
  /\ Len(responses) = 3
  /\ \A i \in 1..3 : Len(responses[i].left) = 1
  /\ responses[1].left[1] # 0
  /\ ~IsNaN(responses[3].left[1])
  /\ responses[2].left # responses[2].right
  /\ responses[3].left # responses[3].right
  /\ PreDeemphasisStream(chain.fresh, chain.stream, 44).left
       # PreDeemphasisStream(chain.fresh, chain.stream, 44).right

(***************************************************************************)
(* C22.  Chain replacement (Spec).                                         *)
(***************************************************************************)
\* the chain dec with the member its constructor leaves uninitialised set
WithCarrierFlag(dec, flag) == [dec EXCEPT !.demodulator_.hasCarrier_ = flag]

\* C22: a setMode with a dictionary payload leaves the host with one chain,
\* the one constructed from the payload, whatever chain and blocks came
\* before; and every block is answered, and the chain left, as the chain's
\* state and the block alone determine, whatever value the member that the
\* constructor leaves uninitialised had.  The answers after a setMode are
\* therefore those of a newly constructed chain of that mode given the same
\* blocks.
C22_NoStateSurvivesReplacement ==
  [][/\ (handled' = handled + 1 /\ msg'.form = "ok" /\ msg'.tag = 1
           /\ is_dictionary(msg'.payload)) =>
          /\ DOMAIN heap' = {decoder_'}
          /\ \E garbage \in BOOLEAN : heap'[decoder_'] = NewDecoder(msg'.payload, garbage)
          /\ chain'.fresh = heap'[decoder_']
          /\ chain'.blocks = 0
     /\ chain'.blocks = chain.blocks + 1 =>
          /\ chain.blocks = 0 => heap[decoder_] = chain.fresh
          /\ \A flag \in BOOLEAN :
               \A r \in {Decoder_decode(WithCarrierFlag(heap[decoder_], flag),
                                         samplesFromUint8(msg'.buffer.bytes),
                                         msg'.stereo = "true")} :
                 /\ heap'[decoder_'] = r.self
                 /\ Last(responses').left = r.audio.left
                 /\ Last(responses').right = r.audio.right
                 /\ Last(responses').stereo = r.audio.inStereo
                 /\ Last(responses').carrier = r.audio.carrier]_vars

\* a block was decoded with a carrier detected, then the mode already
\* active was selected again, and the next block was answered with audio
C22_Witness ==
  /\ handled = 3
  /\ Len(responses) = 2
  /\ prevMsg.form = "ok"
  /\ prevMsg.tag = 1
  /\ is_dictionary(prevMsg.payload)
  /\ prevMsg.payload.modulation = "WBFM"
  /\ chain.blocks = 1
  /\ chain.fresh.kind = "WBFM"
  /\ responses[1].carrier
  /\ responses[1].left # <<>>
  /\ responses[2].left # <<>>
  /\ responses[2].decodedBy # responses[1].decodedBy

(***************************************************************************)
(* C23 and C24.  The WBFM chain decoding a long stream (SpecStereo).       *)
(***************************************************************************)
\* C23: every block a WBFM chain returns with inStereo = false has right
\* equal to left, sample for sample, whatever blocks came before.
C23_MonoBlockChannelsEqual ==
  \A i \in DOMAIN responses :
    ~responses[i].stereo => responses[i].right = responses[i].left

\* C24: a WBFM decode with stereo not requested leaves the separator (sin_,
\* cos_ and the three averages) and the stereo downsampler as they were; a
\* decode with stereo requested for which the separator reports no pilot
\* advances the separator and leaves the stereo downsampler as it was; only
\* a decode answered in stereo feeds the stereo downsampler, whose history
\* is then the tail of that block's difference signal.
C24_StereoPathFrozen ==
  [][(chain'.blocks = chain.blocks + 1 /\ heap[decoder_].kind = "WBFM") =>
       \A dec \in {heap[decoder_]}, after \in {heap'[decoder_]},
          asked \in {msg'.stereo = "true"},
          dem \in {FMDemodulator_demodulateTuned(
                     heap[decoder_].demodulator_,
                     samplesFromUint8(msg'.buffer.bytes)).out} :
         \A sep \in {StereoSeparator_separate(dec.stereoSeparator_, dem)} :
           /\ ~asked =>
                /\ after.stereoSeparator_ = dec.stereoSeparator_
                /\ after.stereoSampler_ = dec.stereoSampler_
           /\ (asked /\ ~sep.hasPilot) =>
                /\ after.stereoSeparator_ = sep.self
                /\ after.stereoSampler_ = dec.stereoSampler_
           /\ (asked /\ sep.hasPilot) =>
                /\ after.stereoSeparator_ = sep.self
                /\ History(after.stereoSampler_.filter_)
                     = LastN(History(dec.stereoSampler_.filter_) \o sep.diff,
                             dec.stereoSampler_.filter_.offset_)]_vars

\* stereo was requested and the block was answered in mono, the pilot being
\* lost; the separator's averages have moved on, and the stereo downsampler
\* still holds the difference signal of an earlier block, which is not the
\* signal the mono downsampler was last fed
C24_Witness ==
  /\ chain.blocks >= 2
  /\ chain.fresh.kind = "WBFM"
  /\ msg.stereo = "true"
  /\ responses[1].stereo
  /\ ~Last(responses).stereo
  /\ heap[decoder_].stereoSeparator_.cavg_ > kCorrThres * AvgRes
  /\ heap[decoder_].stereoSeparator_.cavg_ # chain.fresh.stereoSeparator_.cavg_
  /\ History(heap[decoder_].stereoSampler_.filter_)
       # History(chain.fresh.stereoSampler_.filter_)
  /\ History(heap[decoder_].stereoSampler_.filter_)
       # History(heap[decoder_].monoSampler_.filter_)

====
